---- MODULE Spec2Model ----
(***************************************************************************)
(* Model of the metrics layer of the TSMC trading dashboard:               *)
(*   src/src/data_loader.py  (DashboardDataLoader)                          *)
(*   src/src/metrics.py      (DashboardMetrics)                             *)
(* The data store on disk (daily logs, trade history, portfolio state) is   *)
(* the state; the paper-trading bot writes it, the dashboard reads it.      *)
(*                                                                          *)
(* Floating point values are modelled as exact rationals extended with NaN  *)
(* and +/-infinity, following IEEE-754 / numpy for division by zero.        *)
(* Rounding is not modelled.  Square roots and fractional powers are kept   *)
(* symbolic.                                                                *)
(***************************************************************************)
EXTENDS Integers, Sequences, FiniteSets, TLC

VARIABLES daily_logs, trade_history, portfolio_state, now, ret

vars == <<daily_logs, trade_history, portfolio_state, now, ret>>

----------------------------------------------------------------------------
(* Floating point arithmetic (numpy float64, exact)                         *)

AbsInt(a) == IF a < 0 THEN -a ELSE a

RECURSIVE Gcd(_, _)
Gcd(a, b) == IF b = 0 THEN a ELSE Gcd(b, a % b)

SgnInt(a) == IF a > 0 THEN 1 ELSE IF a < 0 THEN -1 ELSE 0

\* The finite value n/d (d # 0), in lowest terms with a positive denominator.
Fin(n, d) ==
    LET g == Gcd(AbsInt(n), AbsInt(d))
        s == SgnInt(d)
    IN  [k |-> "fin", n |-> (s * n) \div g, d |-> AbsInt(d) \div g]

Num(n) == [k |-> "fin", n |-> n, d |-> 1]

NaN == [k |-> "nan", n |-> 0, d |-> 0]

\* +infinity (s = 1) or -infinity (s = -1)
Inf(s) == [k |-> "inf", n |-> s, d |-> 0]

IsNaN(x) == x.k = "nan"
IsInf(x) == x.k = "inf"
IsFin(x) == x.k = "fin"

Sgn(x) == SgnInt(x.n)

FNeg(x) == IF IsNaN(x) THEN NaN ELSE [x EXCEPT !.n = -x.n]

FAbs(x) == IF IsNaN(x) THEN NaN ELSE [x EXCEPT !.n = AbsInt(x.n)]

FAdd(x, y) ==
    IF IsNaN(x) \/ IsNaN(y) THEN NaN
    ELSE IF IsInf(x) /\ IsInf(y) THEN (IF x.n = y.n THEN x ELSE NaN)
    ELSE IF IsInf(x) THEN x
    ELSE IF IsInf(y) THEN y
    ELSE Fin(x.n * y.d + y.n * x.d, x.d * y.d)

FSub(x, y) == FAdd(x, FNeg(y))

FMul(x, y) ==
    IF IsNaN(x) \/ IsNaN(y) THEN NaN
    ELSE IF IsInf(x) \/ IsInf(y)
         THEN (IF Sgn(x) = 0 \/ Sgn(y) = 0 THEN NaN ELSE Inf(Sgn(x) * Sgn(y)))
    ELSE Fin(x.n * y.n, x.d * y.d)

\* numpy division: x/0 is +/-inf for x # 0 and NaN for 0/0, never an exception
FDiv(x, y) ==
    IF IsNaN(x) \/ IsNaN(y) THEN NaN
    ELSE IF IsInf(x) /\ IsInf(y) THEN NaN
    ELSE IF IsInf(x) THEN Inf(IF Sgn(y) < 0 THEN -x.n ELSE x.n)
    ELSE IF IsInf(y) THEN Num(0)
    ELSE IF y.n = 0 THEN (IF x.n = 0 THEN NaN ELSE Inf(Sgn(x)))
    ELSE Fin(x.n * y.d, x.d * y.n)

\* Comparisons: every comparison with NaN is False
FLt(x, y) ==
    IF IsNaN(x) \/ IsNaN(y) THEN FALSE
    ELSE IF IsInf(x) THEN x.n = -1 /\ ~(IsInf(y) /\ y.n = -1)
    ELSE IF IsInf(y) THEN y.n = 1
    ELSE x.n * y.d < y.n * x.d

FEq(x, y) == ~IsNaN(x) /\ ~IsNaN(y) /\ x = y

FLe(x, y) == FLt(x, y) \/ FEq(x, y)

FGt(x, y) == FLt(y, x)

FNe(x, y) == ~FEq(x, y)

\* sqrt(v), kept symbolic unless v is 0, NaN or infinite
FSqrt(v) ==
    IF IsNaN(v) \/ FLt(v, Num(0)) THEN NaN
    ELSE IF IsInf(v) \/ v.n = 0 THEN v
    ELSE [k |-> "sqrt", n |-> v.n, d |-> v.d]

\* x / sqrt(v), kept symbolic unless it is 0, NaN or infinite
FDivSqrt(x, v) ==
    LET r == FSqrt(v)
    IN  IF r.k # "sqrt" THEN FDiv(x, r)
        ELSE IF ~IsFin(x) \/ x.n = 0 THEN FDiv(x, Num(1))
        ELSE [k |-> "quot", n |-> x.n, d |-> x.d, v |-> v]

\* a / b where a may be a symbolic power: kept symbolic in that case
FQuot(a, b) ==
    IF a.k = "annual" THEN [k |-> "quot_annual", num |-> a, den |-> b]
    ELSE FDiv(a, b)

----------------------------------------------------------------------------
(* pandas Series helpers                                                    *)

RECURSIVE FSum(_)
FSum(s) == IF s = <<>> THEN Num(0) ELSE FAdd(Head(s), FSum(Tail(s)))

RECURSIVE FProd(_)
FProd(s) == IF s = <<>> THEN Num(1) ELSE FMul(Head(s), FProd(Tail(s)))

\* Series.mean(): NaN for an empty series
Mean(s) == FDiv(FSum(s), Num(Len(s)))

\* Series.var() with ddof = 1: NaN when fewer than 2 points
Var(s) ==
    IF Len(s) < 2 THEN NaN
    ELSE LET m  == Mean(s)
             sq == [i \in 1..Len(s) |-> FMul(FSub(s[i], m), FSub(s[i], m))]
         IN  FDiv(FSum(sq), Num(Len(s) - 1))

\* Series.std()
Std(s) == FSqrt(Var(s))

NotNaN(x) == ~IsNaN(x)

\* Series.min() / Series.max(): NaN entries are skipped, NaN if nothing is left
RECURSIVE FMinSeq(_)
FMinSeq(s) ==
    LET t == SelectSeq(s, NotNaN)
    IN  IF t = <<>> THEN NaN
        ELSE IF Len(t) = 1 THEN t[1]
        ELSE LET m == FMinSeq(Tail(t))
             IN  IF FLt(t[1], m) THEN t[1] ELSE m

RECURSIVE FMaxSeq(_)
FMaxSeq(s) ==
    LET t == SelectSeq(s, NotNaN)
    IN  IF t = <<>> THEN NaN
        ELSE IF Len(t) = 1 THEN t[1]
        ELSE LET m == FMaxSeq(Tail(t))
             IN  IF FGt(t[1], m) THEN t[1] ELSE m

\* Series.expanding().max() / Series.cummax(): the prefix maximum
RunningMax(s) == [i \in 1..Len(s) |-> FMaxSeq(SubSeq(s, 1, i))]

\* Series.pct_change().dropna(): s[i]/s[i-1] - 1, the NaN entries dropped
PctChange(s) ==
    LET raw == [i \in 1..Len(s) |->
                   IF i = 1 THEN NaN
                   ELSE FSub(FDiv(s[i], s[i - 1]), Num(1))]
    IN  SelectSeq(raw, NotNaN)

IsNegative(x) == FLt(x, Num(0))

\* Series.tail(n)
TailN(s, n) == IF Len(s) > n THEN SubSeq(s, Len(s) - n + 1, Len(s)) ELSE s

----------------------------------------------------------------------------
(* Program constants                                                        *)

\* np.sqrt(252): trading days per year
TradingDays == 252

\* data.get('cash', 100000), data.get('initial_capital', 100000)
DefaultCapital == 100000

\* get_equity_curve(days=90) in get_risk_status
RiskLookbackDays == 90

\* risk_free_rate: float = 0.02
risk_free_rate == Fin(2, 100)

\* risk_config.get(...) defaults
max_portfolio_exposure == Fin(50, 100)
max_positions == 3
max_drawdown_alert == Fin(15, 100)

----------------------------------------------------------------------------
(* Bounds of the model                                                      *)

MaxLogs == 3
MaxTrades == 3
\* distance in days between the dates a daily log can carry
DaySpan == 60
\* clock resolution: a date is a timestamp at midnight
TicksPerDay == 2

----------------------------------------------------------------------------
(* JSON / dict helpers                                                      *)

\* dict.get(key, default)
Get(d, key, default) == IF key \in DOMAIN d THEN d[key] ELSE default

EmptyDict == <<>>

\* pd.to_datetime(date): the timestamp of a calendar day
Timestamp(date) == date * TicksPerDay

\* timedelta(days=days)
Timedelta(days) == days * TicksPerDay

Perms(n) == {f \in [1..n -> 1..n] : \A i, j \in 1..n : i # j => f[i] # f[j]}

\* df.sort_values('date'): the default sort is not stable, so rows with equal
\* dates may come out in any order
SortValuesByDate(s) ==
    LET n  == Len(s)
        ok == {f \in Perms(n) : \A i \in 1..(n - 1) : s[f[i]].date <= s[f[i + 1]].date}
    IN  {[i \in 1..n |-> s[f[i]]] : f \in ok}

\* Faulty variant of FilterSince: a row dated exactly at the cutoff is dropped
FilterSince_strict(df, t, days) ==
    IF days # 0
    THEN SelectSeq(df, LAMBDA r : Timestamp(r.date) > t - Timedelta(days))
    ELSE df

\* cutoff_date = datetime.now() - timedelta(days=days); df[df['date'] >= cutoff_date]
\* (`if days:` skips the filter for None and for 0)
FilterSince(df, t, days) ==
    IF days # 0
    THEN SelectSeq(df, LAMBDA r : Timestamp(r.date) >= t - Timedelta(days))
    ELSE df

Column(df, col) == [i \in 1..Len(df) |-> df[i][col]]

----------------------------------------------------------------------------
(* DashboardDataLoader                                                      *)

\* The try-block of the loop over the daily log files: the rows appended to
\* equity_data.  A file that is not JSON, or has 'portfolio' but no 'date',
\* raises inside the try and is skipped.
RECURSIVE ReadDailyLogs(_)
ReadDailyLogs(logs) ==
    IF logs = <<>> THEN <<>>
    ELSE LET f == Head(logs)
             rest == ReadDailyLogs(Tail(logs))
         IN  IF ~f.json_ok THEN rest
             ELSE IF "portfolio" \notin DOMAIN f.data THEN rest
             ELSE IF "date" \notin DOMAIN f.data THEN rest
             ELSE <<[date   |-> f.data.date,
                     equity |-> Num(Get(f.data.portfolio, "total_equity", 0))]>>
                  \o rest

\* get_equity_curve(days): the frames the call can return
Loader_get_equity_curve(logs, t, days) ==
    LET equity_data == ReadDailyLogs(logs)
    IN  IF equity_data # <<>>
        THEN {FilterSince(df, t, days) : df \in SortValuesByDate(equity_data)}
        ELSE {<<>>}

\* get_trade_history(days): the frame of trades, empty when the file is absent,
\* not JSON, an empty list, or has no 'date' column.  A trade without a date
\* holds NaT in a frame that has the column: NaT >= cutoff_date is False, so
\* the row goes with `if days:` and stays without it.
Loader_get_trade_history(th, t, days) ==
    IF ~th.exists \/ ~th.json_ok \/ th.trades = <<>> THEN <<>>
    ELSE IF \A i \in 1..Len(th.trades) : "date" \notin DOMAIN th.trades[i] THEN <<>>
    ELSE IF days # 0
    THEN FilterSince(SelectSeq(th.trades, LAMBDA r : "date" \in DOMAIN r), t, days)
    ELSE th.trades

\* sum(f(p) for p in d.values())
RECURSIVE SumValues(_)
SumValues(d) ==
    IF DOMAIN d = {} THEN Num(0)
    ELSE LET key == CHOOSE x \in DOMAIN d : TRUE
             rest == [x \in DOMAIN d \ {key} |-> d[x]]
         IN  FAdd(d[key], SumValues(rest))

\* get_portfolio_status()
Loader_get_portfolio_status(ps) ==
    IF ps.exists
    THEN LET data == ps.data
             cash == Num(Get(data, "cash", DefaultCapital))
             positions == Get(data, "positions", EmptyDict)
             value(p) == FMul(Num(Get(p, "quantity", 0)),
                              Num(Get(p, "current_price", Get(p, "avg_price", 0))))
             invested == SumValues([x \in DOMAIN positions |-> value(positions[x])])
             initial == Num(Get(data, "initial_capital", DefaultCapital))
             total_equity == FAdd(cash, invested)
         IN  [total_equity |-> total_equity,
              cash |-> cash,
              invested |-> invested,
              positions |-> positions,
              total_return_pct |->
                  IF FGt(initial, Num(0))
                  THEN FMul(FSub(FDiv(total_equity, initial), Num(1)), Num(100))
                  ELSE Num(0),
              initial_capital |-> initial]
    ELSE [total_equity |-> Num(DefaultCapital),
          cash |-> Num(DefaultCapital),
          invested |-> Num(0),
          positions |-> EmptyDict,
          total_return_pct |-> Num(0),
          initial_capital |-> Num(DefaultCapital)]

\* (1 + total_return) ** (252 / num_days) - 1, times scale; the power is kept
\* symbolic unless the base is 0, 1, NaN or infinite
Annualize(base, num_days, scale) ==
    IF IsNaN(base) THEN NaN
    ELSE IF IsInf(base) THEN base
    ELSE IF base.n = 0 THEN Num(-scale)
    ELSE IF base = Num(1) THEN Num(0)
    ELSE [k |-> "annual", n |-> base.n, d |-> base.d,
          num_days |-> num_days, scale |-> scale]

OnePlus(returns) == [i \in 1..Len(returns) |-> FAdd(Num(1), returns[i])]

\* get_drawdown_data(days) on the frame get_equity_curve returned: the rows
\* {date, drawdown}; an empty frame for an empty curve
Loader_get_drawdown_data(equity_curve) ==
    IF equity_curve = <<>> THEN <<>>
    ELSE LET equity == Column(equity_curve, "equity")
             running_max == RunningMax(equity)
         IN  [i \in 1..Len(equity_curve) |->
                 [date |-> equity_curve[i].date,
                  drawdown |-> FDiv(FSub(equity[i], running_max[i]), running_max[i])]]

\* _annualize_return(returns)
Loader_annualize_return(returns) ==
    IF returns = <<>> THEN Num(0)
    ELSE LET total_return == FSub(FProd(OnePlus(returns)), Num(1))
             num_days == Len(returns)
         IN  IF num_days = 0 THEN Num(0)
             ELSE Annualize(FAdd(Num(1), total_return), num_days, 1)

\* _calculate_sharpe(returns): (mean / std) * sqrt(252)
Loader_calculate_sharpe(returns) ==
    IF returns = <<>> \/ FEq(Std(returns), Num(0)) THEN Num(0)
    ELSE FDivSqrt(Mean(returns), FDiv(Var(returns), Num(TradingDays)))

\* _calculate_sortino(returns)
Loader_calculate_sortino(returns) ==
    IF returns = <<>> THEN Num(0)
    ELSE LET downside_returns == SelectSeq(returns, IsNegative)
         IN  IF downside_returns = <<>> \/ FEq(Std(downside_returns), Num(0))
             THEN Num(0)
             ELSE FDivSqrt(Mean(returns),
                           FDiv(Var(downside_returns), Num(TradingDays)))

\* _calculate_max_drawdown(equity)
Loader_calculate_max_drawdown(equity) ==
    IF equity = <<>> THEN Num(0)
    ELSE LET running_max == RunningMax(equity)
             drawdown == [i \in 1..Len(equity) |->
                             FDiv(FSub(equity[i], running_max[i]), running_max[i])]
         IN  FMinSeq(drawdown)

\* trades['pnl'] > 0 on a frame row: a row without pnl holds NaN
PnlPositive(t) == "pnl" \in DOMAIN t /\ t.pnl > 0

\* _calculate_win_rate(days)
Loader_calculate_win_rate(th, t, days) ==
    LET trades == Loader_get_trade_history(th, t, days)
    IN  IF trades = <<>> \/ (\A i \in 1..Len(trades) : "pnl" \notin DOMAIN trades[i])
        THEN Num(0)
        ELSE LET winning_trades == Len(SelectSeq(trades, PnlPositive))
             IN  Fin(winning_trades, Len(trades))

\* get_performance_metrics(days) on the frame get_equity_curve returned
Loader_get_performance_metrics(equity_curve, th, t, days) ==
    IF equity_curve = <<>> THEN EmptyDict
    ELSE LET equity == Column(equity_curve, "equity")
             returns == PctChange(equity)
             annual == Loader_annualize_return(returns)
             mdd == Loader_calculate_max_drawdown(equity)
         IN  [total_return_pct |->
                  FSub(FDiv(equity[Len(equity)], equity[1]), Num(1)),
              annual_return_pct |-> annual,
              sharpe_ratio |-> Loader_calculate_sharpe(returns),
              sortino_ratio |-> Loader_calculate_sortino(returns),
              max_drawdown |-> mdd,
              win_rate |-> Loader_calculate_win_rate(th, t, days),
              volatility |-> FSqrt(FMul(Var(returns), Num(TradingDays))),
              calmar_ratio |->
                  IF FNe(mdd, Num(0))
                  THEN FQuot(annual, FAbs(mdd))
                  ELSE Num(0)]

\* Faulty variant of Loader_current_drawdown: the abs() of the returned record is lost
Loader_current_drawdown_signed(equity_curve) ==
    LET equity == Column(equity_curve, "equity")
        peak == FMaxSeq(equity)
        current == equity[Len(equity)]
    IN  IF equity_curve # <<>>
        THEN (IF FGt(peak, Num(0)) THEN FDiv(FSub(current, peak), peak) ELSE Num(0))
        ELSE Num(0)

\* current_drawdown as get_risk_status reports it: (current - peak) / peak of
\* the frame when peak > 0, else 0, through abs()
Loader_current_drawdown(equity_curve) ==
    LET equity == Column(equity_curve, "equity")
        peak == FMaxSeq(equity)
        current == equity[Len(equity)]
        current_drawdown ==
            IF equity_curve # <<>>
            THEN (IF FGt(peak, Num(0)) THEN FDiv(FSub(current, peak), peak) ELSE Num(0))
            ELSE Num(0)
    IN  FAbs(current_drawdown)

\* Faulty variant of Loader_portfolio_exposure: the total_equity > 0 guard is lost
Loader_portfolio_exposure_unguarded(invested, total_equity) ==
    FDiv(invested, total_equity)

\* invested / total_equity if total_equity > 0 else 0
Loader_portfolio_exposure(invested, total_equity) ==
    IF FGt(total_equity, Num(0)) THEN FDiv(invested, total_equity) ELSE Num(0)

\* get_risk_status() on the frame get_equity_curve(days=90) returned
Loader_get_risk_status(ps, equity_curve) ==
    LET portfolio == Loader_get_portfolio_status(ps)
        total_equity == portfolio.total_equity
        invested == portfolio.invested
        num_positions == Cardinality(DOMAIN portfolio.positions)
    IN  [portfolio_exposure |-> Loader_portfolio_exposure(invested, total_equity),
         max_exposure |-> max_portfolio_exposure,
         num_positions |-> num_positions,
         max_positions |-> max_positions,
         current_drawdown |-> Loader_current_drawdown(equity_curve),
         max_drawdown_limit |-> max_drawdown_alert]

----------------------------------------------------------------------------
(* DashboardMetrics                                                         *)

\* get_portfolio_summary()
Metrics_get_portfolio_summary(ps) ==
    IF ~ps.exists
    THEN [total_equity |-> Num(0),
          cash |-> Num(0),
          positions_value |-> Num(0),
          total_return_pct |-> Num(0),
          unrealized_pnl |-> Num(0)]
    ELSE LET state == ps.data
             initial == Get(state, "initial_capital", DefaultCapital)
             cash == Num(Get(state, "cash", initial))
             positions == Get(state, "positions", EmptyDict)
             value(p) == FMul(Num(Get(p, "quantity", 0)),
                              Num(Get(p, "current_price", 0)))
             positions_value ==
                 SumValues([x \in DOMAIN positions |-> value(positions[x])])
             total_equity == FAdd(cash, positions_value)
         IN  [total_equity |-> total_equity,
              cash |-> cash,
              positions_value |-> positions_value,
              total_return_pct |->
                  IF initial > 0
                  THEN FMul(FSub(FDiv(total_equity, Num(initial)), Num(1)), Num(100))
                  ELSE Num(0),
              initial_capital |-> Num(initial),
              positions |-> positions]

IsSell(t) == "action" \in DOMAIN t /\ t.action = "SELL"

\* the record get_trade_statistics returns on its first three exits
NoTradeStatistics(total) ==
    [total_trades |-> Num(total),
     winning_trades |-> Num(0),
     losing_trades |-> Num(0),
     win_rate |-> Num(0),
     total_pnl |-> Num(0),
     avg_pnl |-> Num(0)]

\* get_trade_statistics(): json.load is outside any try
Metrics_get_trade_statistics_raises(th) == th.exists /\ ~th.json_ok

\* get_trade_statistics()
Metrics_get_trade_statistics(th) ==
    IF ~th.exists THEN NoTradeStatistics(0)
    ELSE LET trades == th.trades
             closed_trades == SelectSeq(trades, IsSell)
             pnls == [i \in 1..Len(closed_trades) |-> Num(Get(closed_trades[i], "pnl", 0))]
             winning == Len(SelectSeq(pnls, LAMBDA pnl : FGt(pnl, Num(0))))
             losing == Len(SelectSeq(pnls, LAMBDA pnl : FLt(pnl, Num(0))))
         IN  IF trades = <<>> THEN NoTradeStatistics(0)
             ELSE IF closed_trades = <<>> THEN NoTradeStatistics(Len(trades))
             ELSE [total_trades |-> Num(Len(trades)),
                   closed_trades |-> Num(Len(closed_trades)),
                   winning_trades |-> Num(winning),
                   losing_trades |-> Num(losing),
                   win_rate |-> FMul(FDiv(Num(winning), Num(Len(closed_trades))), Num(100)),
                   total_pnl |-> FSum(pnls),
                   avg_pnl |-> Mean(pnls),
                   best_trade |-> FMaxSeq(pnls),
                   worst_trade |-> FMinSeq(pnls)]

\* calculate_sharpe_ratio(returns, risk_free_rate=0.02)
Metrics_calculate_sharpe_ratio(returns) ==
    IF returns = <<>> \/ Len(returns) < 2 \/ FEq(Std(returns), Num(0)) THEN Num(0)
    ELSE LET mean_return == FMul(Mean(returns), Num(TradingDays))
         IN  FDivSqrt(FSub(mean_return, risk_free_rate),
                      FMul(Var(returns), Num(TradingDays)))

\* calculate_max_drawdown(equity_curve)
Metrics_calculate_max_drawdown(equity_curve) ==
    IF equity_curve = <<>> THEN Num(0)
    ELSE LET running_max == RunningMax(equity_curve)
             drawdown == [i \in 1..Len(equity_curve) |->
                             FMul(FSub(FDiv(equity_curve[i], running_max[i]), Num(1)),
                                  Num(100))]
         IN  FMinSeq(drawdown)

\* get_daily_returns(days): the series the call can return
Metrics_get_daily_returns(logs, days) ==
    LET equity_data == ReadDailyLogs(logs)
    IN  IF equity_data = <<>> THEN {<<>>}
        ELSE {LET returns == PctChange(Column(df, "equity"))
              IN  IF days # 0 /\ Len(returns) > days THEN TailN(returns, days)
                  ELSE returns
              : df \in SortValuesByDate(equity_data)}

\* Faulty variant of Metrics_performance_win_rate: the division by 100 is lost
Metrics_performance_win_rate_percent(trade_stats) ==
    Get(trade_stats, "win_rate", Num(0))

\* 'win_rate': trade_stats.get('win_rate', 0) / 100
Metrics_performance_win_rate(trade_stats) ==
    FDiv(Get(trade_stats, "win_rate", Num(0)), Num(100))

\* get_performance_metrics(days) on the series get_daily_returns returned
Metrics_get_performance_metrics(returns, th) ==
    IF returns = <<>>
    THEN [sharpe_ratio |-> Num(0),
          sortino_ratio |-> Num(0),
          max_drawdown |-> Num(0),
          volatility |-> Num(0),
          win_rate |-> Num(0),
          total_return_pct |-> Num(0),
          annual_return_pct |-> Num(0)]
    ELSE LET sharpe == Metrics_calculate_sharpe_ratio(returns)
             negative_returns == SelectSeq(returns, IsNegative)
             downside_std == FSqrt(FMul(Var(negative_returns), Num(TradingDays)))
             sortino ==
                 IF Len(negative_returns) > 0
                 THEN (IF FGt(downside_std, Num(0))
                       THEN FDivSqrt(FSub(FMul(Mean(returns), Num(TradingDays)),
                                          risk_free_rate),
                                     FMul(Var(negative_returns), Num(TradingDays)))
                       ELSE Num(0))
                 ELSE Inf(1)
             volatility == FSqrt(FMul(Var(returns), Num(TradingDays * 100 * 100)))
             total_return == FMul(FSub(FProd(OnePlus(returns)), Num(1)), Num(100))
             trading_days == Len(returns)
             annual_return ==
                 IF trading_days > 0
                 THEN Annualize(FAdd(Num(1), FDiv(total_return, Num(100))),
                                trading_days, 100)
                 ELSE Num(0)
             trade_stats == Metrics_get_trade_statistics(th)
         IN  [sharpe_ratio |-> sharpe,
              sortino_ratio |-> sortino,
              max_drawdown |-> Num(0),
              volatility |-> volatility,
              win_rate |-> Metrics_performance_win_rate(trade_stats),
              total_return_pct |-> total_return,
              annual_return_pct |-> annual_return]

----------------------------------------------------------------------------
(* The data store and the inputs of the model                               *)

\* total_equity values a daily log can carry (pct_change is scale-free)
EquityValues == {0, 2, 3, 4}

LogDates == {DaySpan, 2 * DaySpan}

\* a daily log file: a JSON object with date and portfolio, or not JSON at all
LogFiles ==
    {[json_ok |-> TRUE,
      data |-> [date |-> d, portfolio |-> [total_equity |-> e]]] :
        d \in LogDates, e \in EquityValues}
    \cup {[json_ok |-> FALSE, data |-> EmptyDict]}

\* the clock: midnight and noon of the last log date and of the days on which
\* the 90-day window leaves the earlier log dates behind
NowValues ==
    {Timestamp(d) + h :
        d \in {2 * DaySpan, DaySpan + RiskLookbackDays, 2 * DaySpan + RiskLookbackDays},
        h \in {0, 1}}

\* lookback arguments: 0 stands for None ("All")
Lookbacks == {0, 1, RiskLookbackDays}

SellPnls == {-2400, 0, 3000, 4500}

TradeDates == {DaySpan, 2 * DaySpan}

\* a trade record: BUY carries pnl 0, SELL the realized pnl
Trades ==
    {[date |-> d, action |-> "BUY", pnl |-> 0] : d \in TradeDates}
    \cup {[date |-> d, action |-> "SELL", pnl |-> x] : d \in TradeDates, x \in SellPnls}

\* a daily log that parses as JSON but lacks a field the loaders read: no date,
\* no total_equity in its portfolio, or no portfolio at all
MalformedLogFiles ==
    {[json_ok |-> TRUE, data |-> [portfolio |-> [total_equity |-> 4]]],
     [json_ok |-> TRUE, data |-> [date |-> 2 * DaySpan, portfolio |-> [cash |-> 4]]],
     [json_ok |-> TRUE, data |-> [date |-> 2 * DaySpan]]}

\* a trade record that lacks pnl or date
MalformedTrades ==
    {[date |-> 2 * DaySpan, action |-> "SELL"],
     [date |-> 2 * DaySpan, action |-> "BUY"],
     [action |-> "SELL", pnl |-> 3000]}

NoFile == [exists |-> FALSE, json_ok |-> TRUE, trades |-> <<>>]

NoPortfolio == [exists |-> FALSE, data |-> EmptyDict]

Symbols == {"2330.TW", "2303.TW"}

\* a position: current_price may be missing from the file
Positions ==
    {[quantity |-> q, avg_price |-> 400, current_price |-> 500] : q \in {0, 100}}
    \cup {[quantity |-> q, avg_price |-> 400] : q \in {100}}

PositionBooks == UNION {[S -> Positions] : S \in SUBSET Symbols}

CashValues == {-60000, 0, 50000}

InitialCapitals == {0, 100000}

\* the portfolio_state.json contents of the model: cash and initial_capital may
\* be missing from the file
PortfolioFiles ==
    {[cash |-> c, initial_capital |-> i, positions |-> b] :
        c \in CashValues, i \in InitialCapitals, b \in PositionBooks}
    \cup {[initial_capital |-> i, positions |-> b] :
        i \in InitialCapitals, b \in PositionBooks}
    \cup {[cash |-> c, positions |-> b] : c \in CashValues, b \in PositionBooks}

----------------------------------------------------------------------------
(* State machine                                                            *)

\* what the last dashboard call saw and returned
Ret(op, input, val) == [op |-> op, input |-> input, val |-> val, raised |-> FALSE]

Init ==
    /\ daily_logs = <<>>
    /\ trade_history = NoFile
    /\ portfolio_state = NoPortfolio
    /\ now = Timestamp(2 * DaySpan)
    /\ ret = Ret("init", <<>>, EmptyDict)

\* Single-threaded, request-scoped: a call returns and its result is rendered
\* before anything else happens
Idle == ret.op = "init"

(* The paper-trading bot and the clock *)

WriteDailyLog ==
    /\ Idle
    /\ Len(daily_logs) < MaxLogs
    /\ \E f \in LogFiles : daily_logs' = Append(daily_logs, f)
    /\ UNCHANGED <<trade_history, portfolio_state, now, ret>>

SaveTradeHistory ==
    /\ Idle
    /\ ~trade_history.exists
    /\ trade_history' = [exists |-> TRUE, json_ok |-> TRUE, trades |-> <<>>]
    /\ UNCHANGED <<daily_logs, portfolio_state, now, ret>>

RecordTrade ==
    /\ Idle
    /\ trade_history.exists
    /\ Len(trade_history.trades) < MaxTrades
    /\ \E t \in Trades :
          trade_history' = [trade_history EXCEPT !.trades = Append(@, t)]
    /\ UNCHANGED <<daily_logs, portfolio_state, now, ret>>

\* a daily log is written without one of its fields
WriteMalformedLog ==
    /\ Idle
    /\ Len(daily_logs) < MaxLogs
    /\ \E f \in MalformedLogFiles : daily_logs' = Append(daily_logs, f)
    /\ UNCHANGED <<trade_history, portfolio_state, now, ret>>

\* a trade is recorded without one of its fields
RecordMalformedTrade ==
    /\ Idle
    /\ trade_history.exists /\ trade_history.json_ok
    /\ Len(trade_history.trades) < MaxTrades
    /\ \E t \in MalformedTrades :
          trade_history' = [trade_history EXCEPT !.trades = Append(@, t)]
    /\ UNCHANGED <<daily_logs, portfolio_state, now, ret>>

\* trade_history.json is left truncated: json.load raises on it
CorruptTradeHistory ==
    /\ Idle
    /\ trade_history.exists /\ trade_history.json_ok
    /\ trade_history' = [exists |-> TRUE, json_ok |-> FALSE, trades |-> <<>>]
    /\ UNCHANGED <<daily_logs, portfolio_state, now, ret>>

SavePortfolioState ==
    /\ Idle
    /\ \E data \in PortfolioFiles :
          portfolio_state' = [exists |-> TRUE, data |-> data]
    /\ UNCHANGED <<daily_logs, trade_history, now, ret>>

Tick ==
    /\ Idle
    /\ \E t \in NowValues : t > now /\ now' = t
    /\ UNCHANGED <<daily_logs, trade_history, portfolio_state, ret>>

(* Dashboard calls *)

Call_Loader_calculate_max_drawdown ==
    /\ Idle
    /\ \E days \in Lookbacks :
       \E curve \in Loader_get_equity_curve(daily_logs, now, days) :
          LET equity == Column(curve, "equity")
          IN  ret' = Ret("Loader._calculate_max_drawdown", equity,
                         Loader_calculate_max_drawdown(equity))
    /\ UNCHANGED <<daily_logs, trade_history, portfolio_state, now>>

Call_Metrics_calculate_max_drawdown ==
    /\ Idle
    /\ \E days \in Lookbacks :
       \E curve \in Loader_get_equity_curve(daily_logs, now, days) :
          LET equity == Column(curve, "equity")
          IN  ret' = Ret("Metrics.calculate_max_drawdown", equity,
                         Metrics_calculate_max_drawdown(equity))
    /\ UNCHANGED <<daily_logs, trade_history, portfolio_state, now>>

Call_Loader_get_drawdown_data ==
    /\ Idle
    /\ \E days \in Lookbacks :
       \E curve \in Loader_get_equity_curve(daily_logs, now, days) :
          ret' = Ret("Loader.get_drawdown_data", curve,
                     Loader_get_drawdown_data(curve))
    /\ UNCHANGED <<daily_logs, trade_history, portfolio_state, now>>

Call_Loader_get_risk_status ==
    /\ Idle
    /\ \E curve \in Loader_get_equity_curve(daily_logs, now, RiskLookbackDays) :
          ret' = Ret("Loader.get_risk_status", curve,
                     Loader_get_risk_status(portfolio_state, curve))
    /\ UNCHANGED <<daily_logs, trade_history, portfolio_state, now>>

Call_Loader_calculate_sharpe ==
    /\ Idle
    /\ \E days \in Lookbacks :
       \E curve \in Loader_get_equity_curve(daily_logs, now, days) :
          LET returns == PctChange(Column(curve, "equity"))
          IN  ret' = Ret("Loader._calculate_sharpe", returns,
                         Loader_calculate_sharpe(returns))
    /\ UNCHANGED <<daily_logs, trade_history, portfolio_state, now>>

Call_Loader_calculate_sortino ==
    /\ Idle
    /\ \E days \in Lookbacks :
       \E curve \in Loader_get_equity_curve(daily_logs, now, days) :
          LET returns == PctChange(Column(curve, "equity"))
          IN  ret' = Ret("Loader._calculate_sortino", returns,
                         Loader_calculate_sortino(returns))
    /\ UNCHANGED <<daily_logs, trade_history, portfolio_state, now>>

Call_Metrics_calculate_sharpe_ratio ==
    /\ Idle
    /\ \E days \in Lookbacks :
       \E returns \in Metrics_get_daily_returns(daily_logs, days) :
          ret' = Ret("Metrics.calculate_sharpe_ratio", returns,
                     Metrics_calculate_sharpe_ratio(returns))
    /\ UNCHANGED <<daily_logs, trade_history, portfolio_state, now>>

Call_Loader_get_performance_metrics ==
    /\ Idle
    /\ \E days \in Lookbacks :
       \E curve \in Loader_get_equity_curve(daily_logs, now, days) :
          ret' = Ret("Loader.get_performance_metrics", curve,
                     Loader_get_performance_metrics(curve, trade_history, now, days))
    /\ UNCHANGED <<daily_logs, trade_history, portfolio_state, now>>

Call_Metrics_get_performance_metrics ==
    /\ Idle
    /\ \E days \in Lookbacks :
       \E returns \in Metrics_get_daily_returns(daily_logs, days) :
          ret' = IF returns # <<>> /\ Metrics_get_trade_statistics_raises(trade_history)
                 THEN [Ret("Metrics.get_performance_metrics", returns, EmptyDict)
                          EXCEPT !.raised = TRUE]
                 ELSE Ret("Metrics.get_performance_metrics", returns,
                          Metrics_get_performance_metrics(returns, trade_history))
    /\ UNCHANGED <<daily_logs, trade_history, portfolio_state, now>>

Call_Metrics_get_trade_statistics ==
    /\ Idle
    /\ ret' = IF Metrics_get_trade_statistics_raises(trade_history)
              THEN [Ret("Metrics.get_trade_statistics", trade_history, EmptyDict)
                       EXCEPT !.raised = TRUE]
              ELSE Ret("Metrics.get_trade_statistics", trade_history,
                       Metrics_get_trade_statistics(trade_history))
    /\ UNCHANGED <<daily_logs, trade_history, portfolio_state, now>>

Call_Loader_calculate_win_rate ==
    /\ Idle
    /\ \E days \in Lookbacks :
          ret' = Ret("Loader._calculate_win_rate",
                     Loader_get_trade_history(trade_history, now, days),
                     Loader_calculate_win_rate(trade_history, now, days))
    /\ UNCHANGED <<daily_logs, trade_history, portfolio_state, now>>

Call_Loader_get_portfolio_status ==
    /\ Idle
    /\ ret' = Ret("Loader.get_portfolio_status", portfolio_state,
                  Loader_get_portfolio_status(portfolio_state))
    /\ UNCHANGED <<daily_logs, trade_history, portfolio_state, now>>

Call_Metrics_get_portfolio_summary ==
    /\ Idle
    /\ ret' = Ret("Metrics.get_portfolio_summary", portfolio_state,
                  Metrics_get_portfolio_summary(portfolio_state))
    /\ UNCHANGED <<daily_logs, trade_history, portfolio_state, now>>

\* the page is rendered from the result; the dashboard is idle again
Render ==
    /\ ~Idle
    /\ ret' = Ret("init", <<>>, EmptyDict)
    /\ UNCHANGED <<daily_logs, trade_history, portfolio_state, now>>

Next ==
    \/ WriteDailyLog
    \/ SaveTradeHistory
    \/ RecordTrade
    \/ WriteMalformedLog
    \/ RecordMalformedTrade
    \/ CorruptTradeHistory
    \/ SavePortfolioState
    \/ Tick
    \/ Call_Loader_calculate_max_drawdown
    \/ Call_Metrics_calculate_max_drawdown
    \/ Call_Loader_get_drawdown_data
    \/ Call_Loader_get_risk_status
    \/ Call_Loader_calculate_sharpe
    \/ Call_Loader_calculate_sortino
    \/ Call_Metrics_calculate_sharpe_ratio
    \/ Call_Loader_get_performance_metrics
    \/ Call_Metrics_get_performance_metrics
    \/ Call_Metrics_get_trade_statistics
    \/ Call_Loader_calculate_win_rate
    \/ Call_Loader_get_portfolio_status
    \/ Call_Metrics_get_portfolio_summary
    \/ Render

\* the whole dashboard over the whole store
Spec == Init /\ [][Next]_vars

\* the equity series: the daily logs grow and the calls that read the equity
\* curve run
NextEquity ==
    \/ WriteDailyLog
    \/ Call_Loader_calculate_max_drawdown
    \/ Call_Metrics_calculate_max_drawdown
    \/ Call_Loader_get_drawdown_data
    \/ Call_Loader_calculate_sharpe
    \/ Call_Loader_calculate_sortino
    \/ Call_Metrics_calculate_sharpe_ratio
    \/ Call_Loader_get_performance_metrics
    \/ Call_Metrics_get_performance_metrics
    \/ Render

SpecEquity == Init /\ [][NextEquity]_vars

\* the risk page: the daily logs grow and the clock advances under
\* get_risk_status
NextRisk ==
    \/ WriteDailyLog
    \/ Tick
    \/ Call_Loader_get_risk_status
    \/ Render

SpecRisk == Init /\ [][NextRisk]_vars

\* the trade store: the trade history grows under the calls that read it, over
\* no equity data or a two-day equity series
InitTrades ==
    /\ daily_logs \in
          {<<>>,
           <<[json_ok |-> TRUE,
              data |-> [date |-> DaySpan, portfolio |-> [total_equity |-> 2]]],
             [json_ok |-> TRUE,
              data |-> [date |-> 2 * DaySpan, portfolio |-> [total_equity |-> 3]]]>>}
    /\ trade_history = NoFile
    /\ portfolio_state = NoPortfolio
    /\ now = Timestamp(2 * DaySpan)
    /\ ret = Ret("init", <<>>, EmptyDict)

NextTrades ==
    \/ SaveTradeHistory
    \/ RecordTrade
    \/ Call_Metrics_get_trade_statistics
    \/ Call_Loader_calculate_win_rate
    \/ Call_Metrics_get_performance_metrics
    \/ Render

SpecTrades == InitTrades /\ [][NextTrades]_vars

\* the portfolio file is rewritten under the calls that read it
NextPortfolio ==
    \/ SavePortfolioState
    \/ Call_Loader_get_portfolio_status
    \/ Call_Metrics_get_portfolio_summary
    \/ Call_Loader_get_risk_status
    \/ Render

SpecPortfolio == Init /\ [][NextPortfolio]_vars

\* malformed records: logs and trades are written without some of their
\* fields, and the trade file is truncated, after a two-day equity series and
\* no trade file or a BUY and a winning SELL
InitMalformed ==
    /\ daily_logs =
          <<[json_ok |-> TRUE,
             data |-> [date |-> DaySpan, portfolio |-> [total_equity |-> 3]]],
            [json_ok |-> TRUE,
             data |-> [date |-> 2 * DaySpan, portfolio |-> [total_equity |-> 2]]]>>
    /\ trade_history \in
          {NoFile,
           [exists |-> TRUE, json_ok |-> TRUE,
            trades |-> <<[date |-> DaySpan, action |-> "BUY", pnl |-> 0],
                         [date |-> 2 * DaySpan, action |-> "SELL", pnl |-> 3000]>>]}
    /\ portfolio_state = NoPortfolio
    /\ now = Timestamp(2 * DaySpan)
    /\ ret = Ret("init", <<>>, EmptyDict)

NextMalformed ==
    \/ WriteMalformedLog
    \/ SaveTradeHistory
    \/ RecordMalformedTrade
    \/ CorruptTradeHistory
    \/ Call_Loader_calculate_max_drawdown
    \/ Call_Loader_calculate_win_rate
    \/ Call_Metrics_get_trade_statistics
    \/ Call_Metrics_get_performance_metrics
    \/ Render

SpecMalformed == InitMalformed /\ [][NextMalformed]_vars

----------------------------------------------------------------------------
(* Claims                                                                   *)

\* the equity points of the daily logs that parse, in file order
LogPoints ==
    LET ok == SelectSeq(daily_logs, LAMBDA f : f.json_ok)
    IN  [i \in 1..Len(ok) |->
            [date |-> ok[i].data.date, equity |-> Num(ok[i].data.portfolio.total_equity)]]

\* two sequences hold the same rows, each as often
SameRows(a, b) ==
    /\ Len(a) = Len(b)
    /\ \A i \in 1..Len(a) :
          Cardinality({j \in 1..Len(a) : a[j] = a[i]})
              = Cardinality({j \in 1..Len(b) : b[j] = a[i]})

\* the largest of a non-empty set of finite values
MaxOf(S) == CHOOSE m \in S : \A v \in S : FLe(v, m)

\* (equity[i] - prefix_max[i]) / prefix_max[i]
PrefixDrawdown(e, i) ==
    LET prefix_max == MaxOf({e[j] : j \in 1..i})
    IN  FDiv(FSub(e[i], prefix_max), prefix_max)

IsMaxDrawdownCall ==
    ret.op \in {"Loader._calculate_max_drawdown", "Metrics.calculate_max_drawdown"}

\* C1: for every non-empty equity series max_drawdown (the loader's and the
\* metrics') returns the minimum over i of (equity[i] - prefix_max[i]) /
\* prefix_max[i], a value <= 0; for an empty series it returns 0.
C1_MaxDrawdownIsMinPrefixDrawdown ==
    IsMaxDrawdownCall =>
        LET e == ret.input
            v == ret.val
        IN  IF e = <<>> THEN v = Num(0)
            ELSE /\ FLe(v, Num(0))
                 /\ \E i \in 1..Len(e) : FEq(v, PrefixDrawdown(e, i))
                 /\ \A i \in 1..Len(e) : FLe(v, PrefixDrawdown(e, i))

\* C2: risk_status reports current_drawdown as a non-negative magnitude: over
\* the equity points of the last 90 days, ordered by date, it is
\* |last - peak| / peak, and 0 when the window is empty or the peak is not
\* positive.
C2_CurrentDrawdownIsMagnitude ==
    ret.op = "Loader.get_risk_status" =>
        LET curve == ret.input
            cd == ret.val.current_drawdown
            window == SelectSeq(LogPoints,
                          LAMBDA r : Timestamp(r.date) >= now - Timedelta(RiskLookbackDays))
            peak == MaxOf({curve[i].equity : i \in 1..Len(curve)})
            last == curve[Len(curve)].equity
        IN  /\ SameRows(curve, window)
            /\ \A i \in 1..Len(curve) : curve[i].date <= curve[Len(curve)].date
            /\ FLe(Num(0), cd)
            /\ IF curve = <<>> THEN cd = Num(0)
               ELSE IF ~FGt(peak, Num(0)) THEN cd = Num(0)
               ELSE cd = FDiv(FAbs(FSub(last, peak)), peak)

\* C2 witness: risk_status ran when the last point of the window lay below its
\* peak and an older point had left the window
C2_Witness ==
    /\ ret.op = "Loader.get_risk_status"
    /\ FGt(ret.val.current_drawdown, Num(0))
    /\ Len(ret.input) >= 2
    /\ Len(ret.input) < Len(LogPoints)

InUnitInterval(x) == FLe(Num(0), x) /\ FLe(x, Num(1))

\* the SELL trades of a trade list
SellsOf(trades) == SelectSeq(trades, LAMBDA t : t.action = "SELL")

\* count(pnl > 0) / count(closed_trades) over the SELL trades, 0 when none
SellWinFraction(trades) ==
    LET closed == SellsOf(trades)
        wins == SelectSeq(closed, LAMBDA t : t.pnl > 0)
    IN  IF closed = <<>> THEN Num(0) ELSE Fin(Len(wins), Len(closed))

\* C3 as stated: every win_rate the metrics layer returns lies in [0,1], and is
\* 0 for an empty trade list.
C3_WinRateInUnitInterval ==
    /\ ret.op \in {"Metrics.get_trade_statistics", "Metrics.get_performance_metrics"} =>
          /\ "win_rate" \in DOMAIN ret.val
          /\ InUnitInterval(ret.val.win_rate)
          /\ trade_history.trades = <<>> => ret.val.win_rate = Num(0)
    /\ ret.op = "Loader._calculate_win_rate" =>
          /\ InUnitInterval(ret.val)
          /\ trade_history.trades = <<>> => ret.val = Num(0)

\* C3 amended: the win_rate of trade_statistics is a percentage in [0,100]; the
\* win_rate of performance_metrics and of the loader's _calculate_win_rate lies
\* in [0,1]; each is 0 for an empty trade list.
C3_WinRateRange ==
    /\ ret.op = "Metrics.get_trade_statistics" =>
          /\ "win_rate" \in DOMAIN ret.val
          /\ FLe(Num(0), ret.val.win_rate) /\ FLe(ret.val.win_rate, Num(100))
          /\ trade_history.trades = <<>> => ret.val.win_rate = Num(0)
    /\ ret.op = "Metrics.get_performance_metrics" =>
          /\ "win_rate" \in DOMAIN ret.val
          /\ InUnitInterval(ret.val.win_rate)
          /\ trade_history.trades = <<>> => ret.val.win_rate = Num(0)
    /\ ret.op = "Loader._calculate_win_rate" =>
          /\ InUnitInterval(ret.val)
          /\ trade_history.trades = <<>> => ret.val = Num(0)

\* C3 witness: performance_metrics ran over an equity series and a trade list
\* with a winning and a losing SELL
C3_Witness ==
    /\ ret.op = "Metrics.get_performance_metrics"
    /\ ret.input # <<>>
    /\ FLt(Num(0), ret.val.win_rate) /\ FLt(ret.val.win_rate, Num(1))

\* C4: BUY trades are excluded from win/loss counting: the loader's win_rate over
\* the trades it read is (SELL trades with pnl > 0) / (SELL trades), and 0 when
\* there is no SELL trade.
C4_WinRateExcludesBuy ==
    ret.op = "Loader._calculate_win_rate" => ret.val = SellWinFraction(ret.input)

\* C5: for any non-empty trade list trade_statistics reports total_trades,
\* closed_trades, winning_trades, losing_trades, total_pnl, avg_pnl over the SELL
\* trades (avg_pnl 0 if no SELL), and best_trade / worst_trade as the max / min
\* SELL pnl.
C5_TradeStatisticsValues ==
    (ret.op = "Metrics.get_trade_statistics" /\ trade_history.trades # <<>>) =>
        LET trades == trade_history.trades
            closed == SellsOf(trades)
            pnls == [i \in 1..Len(closed) |-> Num(closed[i].pnl)]
            wins == SelectSeq(closed, LAMBDA t : t.pnl > 0)
            losses == SelectSeq(closed, LAMBDA t : t.pnl < 0)
            v == ret.val
        IN  /\ {"total_trades", "closed_trades", "winning_trades", "losing_trades",
                "total_pnl", "avg_pnl"} \subseteq DOMAIN v
            /\ v.total_trades = Num(Len(trades))
            /\ v.closed_trades = Num(Len(closed))
            /\ v.winning_trades = Num(Len(wins))
            /\ v.losing_trades = Num(Len(losses))
            /\ FLe(FAdd(v.winning_trades, v.losing_trades), v.closed_trades)
            /\ v.total_pnl = FSum(pnls)
            /\ v.avg_pnl = IF closed = <<>> THEN Num(0)
                           ELSE FDiv(FSum(pnls), Num(Len(closed)))
            /\ closed # <<>> =>
                  /\ {"best_trade", "worst_trade"} \subseteq DOMAIN v
                  /\ \E i \in 1..Len(pnls) : v.best_trade = pnls[i]
                  /\ \A i \in 1..Len(pnls) : FLe(pnls[i], v.best_trade)
                  /\ \E i \in 1..Len(pnls) : v.worst_trade = pnls[i]
                  /\ \A i \in 1..Len(pnls) : FLe(v.worst_trade, pnls[i])

\* the zero-variance returns series: two or more equal finite returns
ZeroVariance(r) ==
    /\ Len(r) >= 2
    /\ \A i \in 1..Len(r) : IsFin(r[i]) /\ r[i] = r[1]

\* a non-empty series of finite returns
FiniteReturns(r) == r # <<>> /\ \A i \in 1..Len(r) : IsFin(r[i])

\* C6: for every returns series (here: non-empty, of finite returns) the sortino
\* ratio of the loader's _calculate_sortino and of the metrics'
\* performance_metrics is +infinity if and only if no return is negative.
C6_SortinoInfiniteIffNoDownside ==
    LET noDownside(r) == \A i \in 1..Len(r) : ~FLt(r[i], Num(0))
    IN  /\ (ret.op = "Loader._calculate_sortino" /\ FiniteReturns(ret.input)) =>
              (ret.val = Inf(1) <=> noDownside(ret.input))
        /\ (ret.op = "Metrics.get_performance_metrics" /\ FiniteReturns(ret.input)) =>
              (ret.val.sortino_ratio = Inf(1) <=> noDownside(ret.input))

\* C7: both Sharpe computations return exactly 0 when the returns series is
\* empty, has fewer than 2 points, or has standard deviation 0 (here: over
\* finite returns).
C7_SharpeZeroWhenDegenerate ==
    ret.op \in {"Loader._calculate_sharpe", "Metrics.calculate_sharpe_ratio"} =>
        LET r == ret.input
        IN  (r = <<>> \/ (FiniteReturns(r) /\ (Len(r) < 2 \/ ZeroVariance(r))))
                => ret.val = Num(0)

TradeStatisticsFields ==
    {"total_trades", "winning_trades", "losing_trades", "win_rate",
     "total_pnl", "avg_pnl", "best_trade", "worst_trade"}

\* C8: trade_statistics never raises and, whatever the trade store holds,
\* returns a record with all eight fields, the win/loss and pnl fields 0 when
\* there is no closed trade.
C8_TradeStatisticsRecord ==
    ret.op = "Metrics.get_trade_statistics" =>
        /\ ~ret.raised
        /\ TradeStatisticsFields \subseteq DOMAIN ret.val
        /\ SellsOf(trade_history.trades) = <<>> =>
              \A f \in TradeStatisticsFields \ {"total_trades"} : ret.val[f] = Num(0)

PerformanceMetricsFields ==
    {"total_return_pct", "annual_return_pct", "sharpe_ratio", "sortino_ratio",
     "max_drawdown", "volatility", "win_rate", "calmar_ratio"}

\* C9: performance_metrics never raises and always returns a record with all
\* eight fields; every field is 0 when there is no equity data, and
\* calmar_ratio is annual_return_pct / |max_drawdown| when max_drawdown is
\* non-zero and 0 otherwise.
C9_PerformanceMetricsRecord ==
    ret.op \in {"Loader.get_performance_metrics", "Metrics.get_performance_metrics"} =>
        /\ ~ret.raised
        /\ PerformanceMetricsFields \subseteq DOMAIN ret.val
        /\ ret.input = <<>> => \A f \in PerformanceMetricsFields : ret.val[f] = Num(0)
        /\ ret.val.calmar_ratio =
              IF FNe(ret.val.max_drawdown, Num(0))
              THEN FQuot(ret.val.annual_return_pct, FAbs(ret.val.max_drawdown))
              ELSE Num(0)

\* every position of the portfolio file carries quantity and current_price
PositionsPriced ==
    portfolio_state.exists =>
        \A x \in DOMAIN portfolio_state.data.positions :
            {"quantity", "current_price"} \subseteq DOMAIN portfolio_state.data.positions[x]

\* C10: risk_status reports portfolio_exposure = invested_value / total_equity,
\* invested_value the sum over the positions of quantity * current_price and
\* total_equity the cash plus it, and 0 whenever total_equity <= 0.
C10_PortfolioExposure ==
    (ret.op = "Loader.get_risk_status" /\ PositionsPriced) =>
        LET book == IF portfolio_state.exists THEN portfolio_state.data.positions
                    ELSE EmptyDict
            cash == IF portfolio_state.exists /\ "cash" \in DOMAIN portfolio_state.data
                    THEN portfolio_state.data.cash ELSE DefaultCapital
            invested_value ==
                SumValues([x \in DOMAIN book |->
                              Num(book[x].quantity * book[x].current_price)])
            total_equity == FAdd(Num(cash), invested_value)
        IN  IF FLe(total_equity, Num(0)) THEN ret.val.portfolio_exposure = Num(0)
            ELSE ret.val.portfolio_exposure = FDiv(invested_value, total_equity)

\* C10 witness: risk_status ran on cash 50000 and one position of quantity 100
\* at current_price 500, and reported exposure 0.5
C10_Witness ==
    /\ ret.op = "Loader.get_risk_status"
    /\ portfolio_state.exists
    /\ portfolio_state.data.positions =
          [x \in {"2330.TW"} |-> [quantity |-> 100, avg_price |-> 400, current_price |-> 500]]
    /\ "cash" \in DOMAIN portfolio_state.data /\ portfolio_state.data.cash = 50000
    /\ ret.val.portfolio_exposure = Fin(1, 2)

\* quantity * current_price of a returned position; a position that carries no
\* current_price has no market value to add
MarketValue(p) == Num(Get(p, "quantity", 0) * Get(p, "current_price", 0))

\* C11: every record get_portfolio_status and get_portfolio_summary return
\* satisfies total_equity = cash + the sum over the returned positions of
\* quantity * current_price, whatever the portfolio file holds (positions
\* without current_price, no file at all).
C11_TotalEquityIsCashPlusPositions ==
    ret.op \in {"Loader.get_portfolio_status", "Metrics.get_portfolio_summary"} =>
        LET book == Get(ret.val, "positions", EmptyDict)
        IN  ret.val.total_equity =
                FAdd(ret.val.cash,
                     SumValues([x \in DOMAIN book |-> MarketValue(book[x])]))

\* the equity points with the last-written record of each date only, by date
LastWrittenPoints ==
    LET idx == {i \in 1..Len(LogPoints) :
                   \A j \in (i + 1)..Len(LogPoints) : LogPoints[j].date # LogPoints[i].date}
        n == Cardinality(idx)
        at(k) == CHOOSE i \in idx :
                     Cardinality({j \in idx : LogPoints[j].date < LogPoints[i].date}) = k - 1
    IN  [k \in 1..n |-> LogPoints[at(k)]]

\* the last-written points that lie in the lookback window
LastWrittenSince(days) ==
    IF days # 0
    THEN SelectSeq(LastWrittenPoints,
                   LAMBDA r : Timestamp(r.date) >= now - Timedelta(days))
    ELSE LastWrittenPoints

\* C12: when daily logs share a date, the loaded equity series and what is
\* derived from it (returns, drawdown series, max_drawdown) use only the
\* last-written record of each date: the series has at most one point per date.
C12_LastWriteWinsPerDate ==
    /\ ret.op \in {"Loader.get_performance_metrics", "Loader.get_drawdown_data"} =>
          /\ \A i, j \in 1..Len(ret.input) :
                 i # j => ret.input[i].date # ret.input[j].date
          /\ \E days \in Lookbacks : ret.input = LastWrittenSince(days)
    /\ ret.op \in {"Loader._calculate_max_drawdown", "Metrics.calculate_max_drawdown"} =>
          \E days \in Lookbacks : ret.input = Column(LastWrittenSince(days), "equity")
    /\ ret.op \in {"Metrics.calculate_sharpe_ratio", "Metrics.get_performance_metrics"} =>
          \E days \in Lookbacks :
             LET returns == PctChange(Column(LastWrittenPoints, "equity"))
             IN  ret.input = IF days # 0 /\ Len(returns) > days
                             THEN TailN(returns, days) ELSE returns

\* a daily log with every field the loaders read
WellFormedLog(f) ==
    /\ f.json_ok
    /\ {"date", "portfolio"} \subseteq DOMAIN f.data
    /\ "total_equity" \in DOMAIN f.data.portfolio

\* a trade with every field the loaders read
WellFormedTrade(t) == {"date", "action", "pnl"} \subseteq DOMAIN t

\* the store without its malformed records; a trade file that is not JSON
\* holds no valid trade
ValidLogs == SelectSeq(daily_logs, WellFormedLog)

ValidTrades ==
    IF ~trade_history.exists THEN trade_history
    ELSE IF ~trade_history.json_ok
    THEN [exists |-> TRUE, json_ok |-> TRUE, trades |-> <<>>]
    ELSE [trade_history EXCEPT !.trades = SelectSeq(@, WellFormedTrade)]

\* C13: a malformed persisted record (unparseable JSON, a record without date,
\* total_equity or pnl) is skipped as a unit: every metrics operation completes
\* without raising, and its result is the result over the same logs and trades
\* with the malformed records removed.
C13_MalformedRecordsSkipped ==
    /\ ret.op = "Loader._calculate_max_drawdown" =>
          \E days \in Lookbacks :
          \E curve \in Loader_get_equity_curve(ValidLogs, now, days) :
             /\ ret.input = Column(curve, "equity")
             /\ ret.val = Loader_calculate_max_drawdown(Column(curve, "equity"))
    /\ ret.op = "Loader._calculate_win_rate" =>
          \E days \in Lookbacks :
             /\ ret.input = Loader_get_trade_history(ValidTrades, now, days)
             /\ ret.val = Loader_calculate_win_rate(ValidTrades, now, days)
    /\ ret.op = "Metrics.get_trade_statistics" =>
          /\ ~ret.raised
          /\ ret.val = Metrics_get_trade_statistics(ValidTrades)
    /\ ret.op = "Metrics.get_performance_metrics" =>
          /\ ~ret.raised
          /\ \E days \in Lookbacks :
             \E returns \in Metrics_get_daily_returns(ValidLogs, days) :
                /\ ret.input = returns
                /\ ret.val = Metrics_get_performance_metrics(returns, ValidTrades)

\* what get_risk_status can return from the present store when called at time t
RiskStatusAt(t) ==
    {Loader_get_risk_status(portfolio_state, curve) :
        curve \in Loader_get_equity_curve(daily_logs, t, RiskLookbackDays)}

\* the equity points on or after the cutoff of a call at time t
PointsSince(t, days) ==
    {i \in 1..Len(LogPoints) : Timestamp(LogPoints[i].date) >= t - Timedelta(days)}

C15_ZeroDenominatorsAreFinite ==
    /\ ret.op \in {"Loader._calculate_max_drawdown", "Metrics.calculate_max_drawdown"} =>
          IsFin(ret.val)
    /\ ret.op = "Loader.get_drawdown_data" =>
          \A i \in 1..Len(ret.val) : IsFin(ret.val[i].drawdown)
    /\ ret.op \in {"Metrics.calculate_sharpe_ratio", "Loader._calculate_sharpe"} =>
          \A i \in 1..Len(ret.input) : IsFin(ret.input[i])

\* the downside subset of a returns series is not empty and has zero or
\* undefined variance: one negative return, or equal negative returns
DegenerateDownside(r) ==
    LET downside == SelectSeq(r, IsNegative)
    IN  /\ downside # <<>>
        /\ \A i \in 1..Len(downside) : downside[i] = downside[1]

\* C16: when the returns that are < 0 are not empty but have zero or undefined
\* variance, in particular when exactly one return is negative, the sortino
\* ratio is exactly 0 in both implementations (over finite returns).
C16_SortinoZeroOnDegenerateDownside ==
    /\ (ret.op = "Loader._calculate_sortino"
          /\ FiniteReturns(ret.input) /\ DegenerateDownside(ret.input)) =>
             ret.val = Num(0)
    /\ (ret.op = "Metrics.get_performance_metrics"
          /\ FiniteReturns(ret.input) /\ DegenerateDownside(ret.input)) =>
             ret.val.sortino_ratio = Num(0)

\* an equity frame that is not empty and holds positive values only
PositiveCurve(curve) ==
    curve # <<>> /\ \A i \in 1..Len(curve) : FGt(curve[i].equity, Num(0))

\* C17: the max_drawdown field of the record performance_metrics returns is
\* the max_drawdown of the equity series in the lookback window (the minimum
\* prefix-max drawdown); it is strictly negative whenever an equity point lies
\* below an earlier one (a negative daily return is a point below its
\* predecessor).
C17_PerformanceMaxDrawdown ==
    /\ (ret.op = "Loader.get_performance_metrics" /\ PositiveCurve(ret.input)) =>
          LET e == Column(ret.input, "equity")
              v == ret.val.max_drawdown
          IN  /\ \E i \in 1..Len(e) : FEq(v, PrefixDrawdown(e, i))
              /\ \A i \in 1..Len(e) : FLe(v, PrefixDrawdown(e, i))
              /\ (\E i, j \in 1..Len(e) : i < j /\ FLt(e[j], e[i])) => FLt(v, Num(0))
    /\ (ret.op = "Metrics.get_performance_metrics" /\ FiniteReturns(ret.input)) =>
          ((\E i \in 1..Len(ret.input) : FLt(ret.input[i], Num(0)))
              => FLt(ret.val.max_drawdown, Num(0)))

\* C18: for every content of the portfolio state file (absent, complete, or
\* with cash, initial_capital or a position's current_price missing)
\* get_portfolio_status and get_portfolio_summary report the same
\* total_equity, cash, invested / positions_value and total_return_pct.
C18_PortfolioStatusEqualsSummary ==
    ret.op \in {"Loader.get_portfolio_status", "Metrics.get_portfolio_summary"} =>
        LET status == IF ret.op = "Loader.get_portfolio_status" THEN ret.val
                      ELSE Loader_get_portfolio_status(portfolio_state)
            summary == IF ret.op = "Metrics.get_portfolio_summary" THEN ret.val
                       ELSE Metrics_get_portfolio_summary(portfolio_state)
        IN  /\ status.total_equity = summary.total_equity
            /\ status.cash = summary.cash
            /\ status.invested = summary.positions_value
            /\ status.total_return_pct = summary.total_return_pct

====
